---- MODULE Spec2Model ----
(***************************************************************************)
(* Model of rankit's Ballot (src/src/main.rs): construction with           *)
(* Ballot::new, the lazy runoff iterator, and one action per pull of it.   *)
(* Column indices and rank values are 0-based as in the source; TLA+       *)
(* sequences are 1-based, so the cell at source index i is seq[i + 1].     *)
(***************************************************************************)
EXTENDS Integers, Sequences, FiniteSets

VARIABLES
    inLabels,   \* the labels argument handed to Ballot::new
    inVotes,    \* the votes argument handed to Ballot::new
    pc,         \* "new" | "ballot" | "rejected" | "iter" | "done" | "panicked"
    labels,     \* Ballot.labels
    votes,      \* Ballot.votes (flat, row-major)
    err,        \* payload of the Err returned by Ballot::new, <<>> otherwise
    n,          \* end of the range 0..self.count() captured by runoff
    k,          \* number of items the iterator has produced so far
    out,        \* the round results produced so far
    tier,       \* local `tier` of the last round, before tier.remove
    winner,     \* local `winner_index` of the last round (-1 before any)
    preLabels,  \* labels at the start of the last round
    preVotes,   \* votes at the start of the last round
    reranked,   \* votes of the last round after the re-rank loop, before remove_column
    fault       \* "none", or the panic that ended the program

vars == <<inLabels, inVotes, pc, labels, votes, err, n, k, out, tier, winner,
          preLabels, preVotes, reranked, fault>>

\* ---------------------------------------------------------------- bounds
MaxC == 3
MaxVotesLen == 6
MaxNewLabels == 2
MaxNewLen == 3

\* ------------------------------------------------------------- helpers
Min(a, b) == IF a <= b THEN a ELSE b

Iota(c) == [j \in 1..c |-> j - 1]

RemoveAt(s, i) == [j \in 1..(Len(s) - 1) |-> IF j <= i THEN s[j] ELSE s[j + 1]]

RECURSIVE Flatten(_)
Flatten(ss) == IF Len(ss) = 0 THEN <<>> ELSE Head(ss) \o Flatten(Tail(ss))

RECURSIVE SumSeq(_)
SumSeq(s) == IF Len(s) = 0 THEN 0 ELSE Head(s) + SumSeq(Tail(s))

\* ------------------------------------------------------------ Ballot::new
NewAccepts(ls, vs) ==
    /\ Len(vs) % Len(ls) = 0
    /\ \A i \in 1..Len(vs) : vs[i] < Len(ls)

BallotNew(ls, vs) ==
    IF Len(ls) = 0
    THEN [tag |-> "panic", labels |-> <<>>, votes |-> <<>>]
    ELSE IF NewAccepts(ls, vs)
         THEN [tag |-> "Ok", labels |-> ls, votes |-> vs]
         ELSE [tag |-> "Err", labels |-> ls, votes |-> vs]

\* ---------------------------------------------------------- Ballot views
Count(ls) == Len(ls)

\* chunks_mut(count): consecutive slices of width count, the last one shorter
\* when the length is not a multiple of count.
Rows(ls, vs) ==
    LET count == Count(ls)
        nrows == (Len(vs) + count - 1) \div count
    IN  [r \in 1..nrows |->
            SubSeq(vs, (r - 1) * count + 1, Min(r * count, Len(vs)))]

\* skip(i).step_by(count) for every i in 0..count
Columns(ls, vs) ==
    LET count == Count(ls)
        len(i) == IF Len(vs) > i THEN (Len(vs) - i - 1) \div count + 1 ELSE 0
    IN  [c \in 1..count |->
            [j \in 1..len(c - 1) |-> vs[(c - 1) + (j - 1) * count + 1]]]

\* --------------------------------------------------------- one round
IsFirst(rank) == rank = 0

Tier(ls, vs) ==
    LET cols == Columns(ls, vs)
    IN  [c \in 1..Len(cols) |-> Len(SelectSeq(cols[c], IsFirst))]

\* Iterator::max_by_key folds left to right and keeps the later element on
\* equal keys.
RECURSIVE MaxFold(_, _, _, _)
MaxFold(t, i, best, keepLater) ==
    IF i >= Len(t) THEN best
    ELSE MaxFold(t, i + 1,
                 IF \/ t[i + 1] > t[best + 1]
                    \/ (keepLater /\ t[i + 1] = t[best + 1])
                 THEN i ELSE best,
                 keepLater)

MaxByKeyFirst(t) == IF Len(t) = 0 THEN -1 ELSE MaxFold(t, 1, 0, FALSE)

MaxByKey(t) == IF Len(t) = 0 THEN -1 ELSE MaxFold(t, 1, 0, TRUE)

RerankRowNone(row, w) == row

RerankRowAllPositive(row, w) ==
    [j \in 1..Len(row) |-> IF row[j] > 0 THEN row[j] - 1 ELSE row[j]]

RerankRow(row, w) ==
    LET winner_rank == row[w + 1]
    IN  [j \in 1..Len(row) |->
            IF row[j] > winner_rank THEN row[j] - 1 ELSE row[j]]

Rerank(ls, vs, w) ==
    LET rows == Rows(ls, vs)
    IN  Flatten([r \in 1..Len(rows) |-> RerankRow(rows[r], w)])

\* for i in (0..votes.len()).rev().filter(|i| i % count == col)
RECURSIVE RemoveFrom(_, _, _, _)
RemoveFrom(vs, i, count, col) ==
    IF i < 0 THEN vs
    ELSE RemoveFrom(IF i % count = col THEN RemoveAt(vs, i) ELSE vs,
                    i - 1, count, col)

RemoveColumnSlice(ls, vs, col) ==
    LET nrows == Len(vs) \div Count(ls)
    IN  [labels |-> RemoveAt(ls, col),
         votes  |-> SubSeq(vs, 1, col * nrows)
                    \o SubSeq(vs, (col + 1) * nrows + 1, Len(vs)),
         label  |-> ls[col + 1]]

RemoveColumn(ls, vs, col) ==
    [labels |-> RemoveAt(ls, col),
     votes  |-> RemoveFrom(vs, Len(vs) - 1, Count(ls), col),
     label  |-> ls[col + 1]]

Zip(a, b) == [j \in 1..Min(Len(a), Len(b)) |-> <<a[j], b[j]>>]

DataMisaligned(ls, t, w) == Zip(ls, t)

Data(ls, t, w) == Zip(ls, RemoveAt(t, w))

\* The panic, if any, that the body of the closure raises on (ls, vs).
RoundFault(ls, vs) ==
    LET t == Tier(ls, vs)
        w == MaxByKey(t)
    IN  IF w = -1 THEN "unwrap_none"
        ELSE IF Count(ls) = 0 THEN "chunk_size_zero"
        ELSE IF \E r \in 1..Len(Rows(ls, vs)) : w >= Len(Rows(ls, vs)[r])
             THEN "index_out_of_bounds"
        ELSE IF \E r \in 1..Len(Rows(ls, vs)) :
                    \E j \in 1..Len(Rows(ls, vs)[r]) :
                        RerankRow(Rows(ls, vs)[r], w)[j] < 0
             THEN "subtract_overflow"
        ELSE IF w >= Len(ls) \/ w >= Len(t) THEN "remove_out_of_bounds"
        ELSE "none"

RunoffRangeShort(ls) == Count(ls) - 1

RunoffRangeLong(ls) == Count(ls) + 1

RunoffRange(ls) == Count(ls)

\* ------------------------------------------------------------- inputs
ThreeLabels == <<0, 1, 2>>

ThreeValues == <<0, 1, 2,  0, 2, 1,  1, 2, 0,  1, 0, 2,  2, 0, 1,
                 2, 1, 0,  0, 2, 1,  0, 2, 1,  2, 0, 1>>

WellFormedInputs ==
    UNION { { <<Iota(c), vs>> : vs \in [1..(v * c) -> 0..(c - 1)] } :
            <<c, v>> \in { cv \in (1..MaxC) \X (0..MaxVotesLen) :
                             cv[1] * cv[2] <= MaxVotesLen } }

ArbitraryInputs ==
    LET lss == UNION { [1..c -> 0..(MaxNewLabels - 1)] : c \in 0..MaxNewLabels }
        vss == UNION { [1..l -> 0..MaxNewLabels] : l \in 0..MaxNewLen }
    IN  lss \X vss

Inputs == WellFormedInputs \cup ArbitraryInputs \cup {<<ThreeLabels, ThreeValues>>}

\* -------------------------------------------------------------- actions
Init ==
    /\ \E in \in Inputs : inLabels = in[1] /\ inVotes = in[2]
    /\ pc = "new"
    /\ labels = <<>>
    /\ votes = <<>>
    /\ err = <<>>
    /\ n = 0
    /\ k = 0
    /\ out = <<>>
    /\ tier = <<>>
    /\ winner = -1
    /\ preLabels = <<>>
    /\ preVotes = <<>>
    /\ reranked = <<>>
    /\ fault = "none"

New ==
    /\ pc = "new"
    /\ LET res == BallotNew(inLabels, inVotes)
       IN  /\ pc' = CASE res.tag = "Ok" -> "ballot"
                      [] res.tag = "Err" -> "rejected"
                      [] OTHER -> "panicked"
           /\ fault' = IF res.tag = "panic" THEN "remainder_by_zero" ELSE "none"
           /\ labels' = IF res.tag = "Ok" THEN res.labels ELSE <<>>
           /\ votes' = IF res.tag = "Ok" THEN res.votes ELSE <<>>
           /\ err' = IF res.tag = "Err" THEN <<res.labels, res.votes>> ELSE <<>>
    /\ UNCHANGED <<inLabels, inVotes, n, k, out, tier, winner, preLabels,
                   preVotes, reranked>>

Runoff ==
    /\ pc = "ballot"
    /\ pc' = "iter"
    /\ n' = RunoffRange(labels)
    /\ k' = 0
    /\ UNCHANGED <<inLabels, inVotes, labels, votes, err, out, tier, winner,
                   preLabels, preVotes, reranked, fault>>

Round ==
    /\ pc = "iter"
    /\ k < n
    /\ IF RoundFault(labels, votes) # "none"
       THEN /\ pc' = "panicked"
            /\ fault' = RoundFault(labels, votes)
            /\ UNCHANGED <<labels, votes, k, out, tier, winner, preLabels,
                           preVotes, reranked>>
       ELSE LET t == Tier(labels, votes)
                winner_index == MaxByKey(t)
                rr == Rerank(labels, votes, winner_index)
                rm == RemoveColumn(labels, rr, winner_index)
                winner_count == t[winner_index + 1]
                data == Data(rm.labels, t, winner_index)
            IN  /\ tier' = t
                /\ winner' = winner_index
                /\ preLabels' = labels
                /\ preVotes' = votes
                /\ reranked' = rr
                /\ labels' = rm.labels
                /\ votes' = rm.votes
                /\ out' = Append(out, [label |-> rm.label,
                                       count |-> winner_count,
                                       data  |-> data])
                /\ k' = k + 1
                /\ UNCHANGED <<pc, fault>>
    /\ UNCHANGED <<inLabels, inVotes, err, n>>

Done ==
    /\ pc = "iter"
    /\ k >= n
    /\ pc' = "done"
    /\ UNCHANGED <<inLabels, inVotes, labels, votes, err, n, k, out, tier,
                   winner, preLabels, preVotes, reranked, fault>>

Next == New \/ Runoff \/ Round \/ Done

Spec == Init /\ [][Next]_vars

\* ------------------------------------------------------ shared vocabulary
InRunoff == pc \in {"iter", "done"}

RoundTaken == InRunoff /\ k >= 1

Accepted == Len(inLabels) > 0 /\ NewAccepts(inLabels, inVotes)

C0 == Len(inLabels)

V0 == Len(inVotes) \div Len(inLabels)

\* cell of voter r for the candidate at column j, both 0-based, width c
Cell(vs, c, r, j) == vs[r * c + j + 1]

IsPermRow(vs, c, r) ==
    { Cell(vs, c, r, j) : j \in 0..(c - 1) } = 0..(c - 1)

InputIsPerm ==
    /\ Accepted
    /\ \A r \in 0..(V0 - 1) : IsPermRow(inVotes, C0, r)

\* column index after the column w has been removed
Shift(j, w) == IF j < w THEN j ELSE j - 1

FirstPlace(vs, c, j) ==
    Cardinality({ r \in 0..((Len(vs) \div c) - 1) : Cell(vs, c, r, j) = 0 })

Leaders == [i \in 1..Len(out) |-> out[i].label]

Occurrences(s, x) == Cardinality({ i \in 1..Len(s) : s[i] = x })

IsThreeExample == inLabels = ThreeLabels /\ inVotes = ThreeValues

\* ------------------------------------------------------------------- C1
\* C1 (as stated): in every round the leader removed is the LOWEST column
\* index whose first-place tally is the maximum.
C1_LeftmostLeader ==
    RoundTaken =>
        /\ \A i \in 0..(Len(tier) - 1) : tier[i + 1] <= tier[winner + 1]
        /\ \A i \in 0..(winner - 1) : tier[i + 1] < tier[winner + 1]
        /\ out[k].label = preLabels[winner + 1]

\* C1 (amended): in every round the leader removed is the HIGHEST column
\* index whose first-place tally is the maximum (rightmost wins), also when
\* there are no voters and every tally is 0.
C1_RightmostLeader ==
    RoundTaken =>
        /\ \A i \in 0..(Len(tier) - 1) : tier[i + 1] <= tier[winner + 1]
        /\ \A i \in (winner + 1)..(Len(tier) - 1) : tier[i + 1] < tier[winner + 1]
        /\ \A j \in 0..(Len(tier) - 1) : tier[j + 1] = FirstPlace(preVotes, Len(preLabels), j)
        /\ out[k].label = preLabels[winner + 1]
        /\ labels = RemoveAt(preLabels, winner)

C1_Witness ==
    /\ RoundTaken
    /\ V0 >= 1
    /\ \E i \in 0..(Len(tier) - 1) : i # winner /\ tier[i + 1] = tier[winner + 1]

\* ------------------------------------------------------------------- C2
\* C2: for a ballot of V permutation rows, in every round the leader's tally
\* plus the tallies of the others equals V.
C2_TallySum ==
    (InputIsPerm /\ InRunoff) =>
        \A i \in 1..Len(out) :
            out[i].count
              + SumSeq([j \in 1..Len(out[i].data) |-> out[i].data[j][2]]) = V0

C2_Witness ==
    /\ InputIsPerm
    /\ pc = "done"
    /\ C0 >= 3
    /\ V0 >= 2
    /\ \E i \in 1..Len(out) : out[i].count < V0

\* ------------------------------------------------------------------- C3
\* C3: Ballot::new never panics; it returns a ballot when votes.len() is a
\* multiple of labels.len() and every vote is < labels.len(), and otherwise
\* returns Err carrying exactly the labels and votes it was given.
C3_NewTotal ==
    pc # "new" =>
        /\ fault # "remainder_by_zero"
        /\ pc # "panicked"
        /\ pc = "rejected" => err = <<inLabels, inVotes>>
        /\ pc = "rejected" <=>
              ~ /\ \E m \in 0..Len(inVotes) : Len(inVotes) = m * Len(inLabels)
                /\ \A i \in 1..Len(inVotes) : inVotes[i] < Len(inLabels)

\* ------------------------------------------------------------------- C4
\* C4: runoff on C0 candidates yields exactly C0 round results when fully
\* consumed, each round removing one label and one cell per row; afterwards
\* the label list is empty and the leaders emitted are the initial labels,
\* each once.
C4_RoundCount ==
    /\ InRunoff =>
          /\ Len(out) = k
          /\ Len(labels) = C0 - k
          /\ Len(votes) = V0 * (C0 - k)
    /\ pc = "done" =>
          /\ Len(out) = C0
          /\ labels = <<>>
          /\ \A x \in { inLabels[i] : i \in 1..C0 } \cup { Leaders[i] : i \in 1..Len(out) } :
                Occurrences(Leaders, x) = Occurrences(inLabels, x)

C4_Witness ==
    /\ pc = "done"
    /\ C0 >= 3
    /\ V0 >= 2
    /\ Len(out) = 3

\* ------------------------------------------------------------------- C5
\* C5 (as stated): the three-candidate, nine-voter scenario emits the leaders
\* 0, 2, 1 and candidate 0 leads round 1 with a tally of 3.
C5_ThreeExampleTallyThree ==
    (IsThreeExample /\ pc = "done") =>
        /\ Leaders = <<0, 2, 1>>
        /\ out[1].count = 3

\* C5 (amended): the scenario emits the leaders 0, 2, 1 and candidate 0 leads
\* round 1 with a tally of 4.
C5_ThreeExampleTallyFour ==
    (IsThreeExample /\ pc = "done") =>
        /\ Leaders = <<0, 2, 1>>
        /\ out[1].label = 0
        /\ out[1].count = 4

C5_Witness == IsThreeExample /\ pc = "done" /\ Len(out) = 3

\* ------------------------------------------------------------------- C6
\* C6: for every accepted ballot, rows not required to be permutations, after
\* every round every remaining cell is strictly less than the current
\* candidate count.
C6_CellsBelowCount ==
    RoundTaken => \A p \in 1..Len(votes) : votes[p] < Len(labels)

\* ------------------------------------------------------------------- C7
\* C7: for a ballot of permutation rows, after each round every row over the
\* remaining columns is again a permutation of 0..C-1.
C7_RowsStayDense ==
    (InputIsPerm /\ RoundTaken) =>
        /\ Len(votes) = V0 * Len(labels)
        /\ \A r \in 0..(V0 - 1) : IsPermRow(votes, Len(labels), r)

C7_Witness ==
    /\ InputIsPerm
    /\ RoundTaken
    /\ Len(labels) >= 2
    /\ V0 >= 1
    /\ reranked # preVotes

\* ------------------------------------------------------------------- C8
\* C8: for every accepted ballot with at least one label no round can fail:
\* the tally vector is non-empty, the leader's index is inside every row and
\* inside the label list, no decrement goes below 0, and the row width is
\* never 0.
C8_RoundsCannotFail ==
    /\ Len(inLabels) >= 1 => fault = "none"
    /\ (pc = "iter" /\ k < n) =>
          /\ Len(labels) >= 1
          /\ Len(votes) % Len(labels) = 0
          /\ RoundFault(labels, votes) = "none"
    /\ RoundTaken =>
          /\ Len(tier) >= 1
          /\ Len(tier) = Len(preLabels)
          /\ winner \in 0..(Len(preLabels) - 1)
          /\ Len(preVotes) % Len(preLabels) = 0
          /\ Len(reranked) = Len(preVotes)
          /\ \A p \in 1..Len(reranked) : reranked[p] >= 0
          /\ Len(votes) = Len(preVotes) - Len(preVotes) \div Len(preLabels)

C8_Witness ==
    /\ pc = "done"
    /\ ~InputIsPerm
    /\ k >= 2
    /\ V0 >= 1
    /\ fault = "none"

\* ------------------------------------------------------------------- C9
\* C9: the others list of a round holds exactly the candidates remaining at
\* the start of the round other than the leader, in label order, each with
\* its first-place tally counted before re-ranking and column removal.
C9_OthersAligned ==
    RoundTaken =>
        LET c == Len(preLabels)
            data == out[k].data
        IN  /\ Len(data) = c - 1
            /\ out[k].count = FirstPlace(preVotes, c, winner)
            /\ \A j \in (0..(c - 1)) \ {winner} :
                  data[Shift(j, winner) + 1]
                    = <<preLabels[j + 1], FirstPlace(preVotes, c, j)>>

C9_Witness ==
    /\ RoundTaken
    /\ Len(preLabels) >= 3
    /\ winner < Len(preLabels) - 1
    /\ \E j \in 1..Len(labels) :
          out[k].data[j][2] # FirstPlace(votes, Len(labels), j - 1)

\* ------------------------------------------------------------------ C10
\* C10: for a ballot of permutation rows a round keeps every voter's relative
\* order of the surviving candidates, and column removal deletes exactly the
\* leader's cell of each row, the other cells keeping their order.
C10_OrderPreserved ==
    (InputIsPerm /\ RoundTaken) =>
        LET c == Len(preLabels)
            v == Len(preVotes) \div c
            survivors == (0..(c - 1)) \ {winner}
        IN  /\ Len(votes) = v * (c - 1)
            /\ \A r \in 0..(v - 1) : \A a \in survivors :
                  /\ Cell(votes, c - 1, r, Shift(a, winner)) = Cell(reranked, c, r, a)
                  /\ \A b \in survivors :
                        Cell(preVotes, c, r, a) < Cell(preVotes, c, r, b)
                          <=> Cell(votes, c - 1, r, Shift(a, winner))
                                < Cell(votes, c - 1, r, Shift(b, winner))

C10_Witness ==
    /\ InputIsPerm
    /\ RoundTaken
    /\ Len(preLabels) >= 3
    /\ V0 >= 2
    /\ winner < Len(preLabels) - 1
    /\ reranked # preVotes

====
